---- MODULE Spec2Model ----
(***************************************************************************)
(* Model of settings/EvalIFG/haystack_gen.py: a script that prints the     *)
(* description of a start -> {B, N1..Nk} -> finish graph, one directive    *)
(* per line.  Each statement of the script is one action; the standard     *)
(* output is the sequence of lines printed so far.                         *)
(***************************************************************************)
EXTENDS Integers, Sequences, FiniteSets, TLC

VARIABLES pc, out, num_other_paths, other_path_fitness, path_length,
          it, i, node_name

vars == <<pc, out, num_other_paths, other_path_fitness, path_length,
          it, i, node_name>>

(* ------------------------------ bounds --------------------------------- *)
\* largest non-default loop count explored
MaxPaths == 3
\* most negative loop count explored is -MaxNeg
MaxNeg == 2

(* ------------------------- Python values ------------------------------- *)
\* a Python int
PyInt(n) == [kind |-> "int", n |-> n]
\* a Python float with one decimal digit: t / 10
PyFloat(t) == [kind |-> "float", n |-> t]

\* a name that has not been assigned yet / that holds v
Unbound == <<>>
Bound(v) == <<v>>

Digit(d) == SubSeq("0123456789", d + 1, d + 1)

RECURSIVE NatStr(_)
NatStr(n) == IF n < 10 THEN Digit(n) ELSE NatStr(n \div 10) \o Digit(n % 10)

\* str(v) for an int or for a float with one decimal digit
PyStr(v) ==
  LET a == IF v.n < 0 THEN 0 - v.n ELSE v.n
      sign == IF v.n < 0 THEN "-" ELSE ""
  IN IF v.kind = "int"
     THEN sign \o NatStr(a)
     ELSE sign \o NatStr(a \div 10) \o "." \o Digit(a % 10)

RangeOffByOne(n) == [j \in 1..(IF n + 1 > 0 THEN n + 1 ELSE 0) |-> j - 1]
RangeAbs(n) == [j \in 1..(IF n > 0 THEN n ELSE 0 - n) |-> j - 1]
\* range(n): the sequence 0, 1, ..., n-1, empty when n <= 0
Range(n) == [j \in 1..(IF n > 0 THEN n ELSE 0) |-> j - 1]

(* ------------------------- the script's constants ---------------------- *)
DefaultNumOtherPaths == 99
DefaultOtherPathFitness == PyFloat(1)
DefaultPathLength == PyInt(7)

\* values tried for the three parameters besides the defaults
NumPathsVals == (0 - MaxNeg)..MaxPaths
FitnessVals == {PyFloat(1), PyFloat(25), PyInt(0)}
PathLengthVals == {PyInt(7), PyFloat(15), PyInt(0)}

(* ------------------------- the printed lines --------------------------- *)
\* print(s): one more line on standard output
Emit(o, s) == Append(o, s)

LineAddStart == "add, start, 1"
LineBlank == ""
LineAddB == "add, B, 9"
LineConnectStartBHard(p) == "connect, start, B, 7"
LineConnectStartB(p) == "connect, start, B, " \o PyStr(p)
LineAddFinish == "add, finish, 10 "
LineConnectBFinish == "connect, B, finish, 0"

NodeNameZeroBased(idx) == "N" \o PyStr(PyInt(idx))
NodeName(idx) == "N" \o PyStr(PyInt(idx + 1))

LineAddNode(name, f) == "add, " \o name \o ", " \o PyStr(f)
LineConnectStartNode(name, p) == "connect, start, " \o name \o ", " \o PyStr(p)
LineConnectNodeFinishTypo(name) == "connect, " \o name \o ", end, 0"
LineConnectNodeFinishRev(name) == "connect, finish, " \o name \o ", 0"
LineConnectNodeFinish(name) == "connect, " \o name \o ", finish, 0"

(* ------------------------------ Init ----------------------------------- *)
Init ==
  /\ \/ /\ num_other_paths \in NumPathsVals
        /\ other_path_fitness \in FitnessVals
        /\ path_length \in PathLengthVals
     \/ /\ num_other_paths = DefaultNumOtherPaths
        /\ other_path_fitness = DefaultOtherPathFitness
        /\ path_length = DefaultPathLength
  /\ pc = "L5"
  /\ out = <<>>
  /\ it = 0
  /\ i = Unbound
  /\ node_name = Unbound

(* ----------------------------- actions --------------------------------- *)
\* a print statement at position from, continuing at position to
Stmt(from, to, line) ==
  /\ pc = from
  /\ out' = Emit(out, line)
  /\ pc' = to
  /\ UNCHANGED <<num_other_paths, other_path_fitness, path_length,
                 it, i, node_name>>

EmitAddStart == Stmt("L5", "L6", LineAddStart)
EmitBlank1 == Stmt("L6", "L7", LineBlank)
EmitAddB == Stmt("L7", "L8", LineAddB)
EmitConnectStartB == Stmt("L8", "L9", LineConnectStartB(path_length))
EmitBlank2 == Stmt("L9", "L10", LineBlank)
EmitAddFinish == Stmt("L10", "L11", LineAddFinish)
EmitConnectBFinish == Stmt("L11", "L12", LineConnectBFinish)
EmitBlank3 == Stmt("L12", "L14", LineBlank)

\* for i in range(num_other_paths): take the next element, if any
ForEnter ==
  /\ pc = "L14"
  /\ it < Len(Range(num_other_paths))
  /\ i' = Bound(Range(num_other_paths)[it + 1])
  /\ it' = it + 1
  /\ pc' = "L15"
  /\ UNCHANGED <<out, num_other_paths, other_path_fitness, path_length,
                 node_name>>

\* the range is exhausted: the script ends
ForExit ==
  /\ pc = "L14"
  /\ it >= Len(Range(num_other_paths))
  /\ pc' = "done"
  /\ UNCHANGED <<out, num_other_paths, other_path_fitness, path_length,
                 it, i, node_name>>

AssignNodeName ==
  /\ pc = "L15"
  /\ node_name' = Bound(NodeName(i[1]))
  /\ pc' = "L16"
  /\ UNCHANGED <<out, num_other_paths, other_path_fitness, path_length,
                 it, i>>

EmitAddNode ==
  Stmt("L16", "L17", LineAddNode(node_name[1], other_path_fitness))
EmitConnectStartNode ==
  Stmt("L17", "L18", LineConnectStartNode(node_name[1], path_length))
EmitConnectNodeFinishThenBlank ==
  /\ pc = "L18"
  /\ out' = Emit(Emit(out, LineConnectNodeFinish(node_name[1])), LineBlank)
  /\ pc' = "L14"
  /\ UNCHANGED <<num_other_paths, other_path_fitness, path_length,
                 it, i, node_name>>
EmitConnectNodeFinish ==
  Stmt("L18", "L14", LineConnectNodeFinish(node_name[1]))

Next ==
  \/ EmitAddStart
  \/ EmitBlank1
  \/ EmitAddB
  \/ EmitConnectStartB
  \/ EmitBlank2
  \/ EmitAddFinish
  \/ EmitConnectBFinish
  \/ EmitBlank3
  \/ ForEnter
  \/ ForExit
  \/ AssignNodeName
  \/ EmitAddNode
  \/ EmitConnectStartNode
  \/ EmitConnectNodeFinish

Spec == Init /\ [][Next]_vars

\* the interpreter always executes the next statement
FairSpec == Spec /\ WF_vars(Next)

(* ------------------- reading the output back --------------------------- *)
\* the fields of a line, separated by a comma and a space
RECURSIVE Split(_)
Split(s) ==
  LET n == Len(s)
      hits == {j \in 1..(n - 1) : SubSeq(s, j, j + 1) = ", "}
  IN IF hits = {}
     THEN <<s>>
     ELSE LET j == CHOOSE x \in hits : \A y \in hits : x <= y
          IN <<SubSeq(s, 1, j - 1)>> \o Split(SubSeq(s, j + 2, n))

\* the fields of every line printed so far
Parsed == <<>> \o [j \in 1..Len(out) |-> Split(out[j])]
IsAdd(f) == Len(f) = 3 /\ f[1] = "add"
IsConnect(f) == Len(f) = 4 /\ f[1] = "connect"
\* positions of the add / connect lines of a parsed output P
AddIdx(P) == {j \in 1..Len(P) : IsAdd(P[j])}
ConnectIdx(P) == {j \in 1..Len(P) : IsConnect(P[j])}
BlankIdx == {j \in 1..Len(out) : out[j] = ""}
NonBlankIdx == {j \in 1..Len(out) : out[j] # ""}
AddNames(P) == {P[j][2] : j \in AddIdx(P)}

Done == pc = "done"
IsDefaults ==
  /\ num_other_paths = DefaultNumOtherPaths
  /\ other_path_fitness = DefaultOtherPathFitness
  /\ path_length = DefaultPathLength
K == IF num_other_paths > 0 THEN num_other_paths ELSE 0
DistractorNames == {"N" \o PyStr(PyInt(e)) : e \in 1..K}
\* a distractor line: an add of an N node or a connect that mentions one
IsDistractorLine(f) ==
  \/ IsAdd(f) /\ Len(f[2]) > 0 /\ SubSeq(f[2], 1, 1) = "N"
  \/ IsConnect(f) /\ \E x \in {2, 3} :
        Len(f[x]) > 0 /\ SubSeq(f[x], 1, 1) = "N"

\* the line expected at position j of the complete output
ExpectedLine(j) ==
  IF j <= 8
  THEN <<"add, start, 1", "", "add, B, 9",
         "connect, start, B, " \o PyStr(path_length), "",
         "add, finish, 10 ", "connect, B, finish, 0", "">>[j]
  ELSE LET e == ((j - 8 - 1) \div 3) + 1
           r == (j - 8 - 1) % 3
           nm == "N" \o PyStr(PyInt(e))
       IN CASE r = 0 -> "add, " \o nm \o ", " \o PyStr(other_path_fitness)
            [] r = 1 -> "connect, start, " \o nm \o ", " \o PyStr(path_length)
            [] r = 2 -> "connect, " \o nm \o ", finish, 0"

(* ------------------------------ C1 ------------------------------------- *)
\* C1: for every k >= 0, fitness f and path length p the finished output is
\* exactly the 8 header lines followed, for i = 1..k in increasing order, by
\* 'add, N<i>, <f>', 'connect, start, N<i>, <p>', 'connect, N<i>, finish, 0';
\* nothing else is printed and no line names N0.
ExactOutput ==
  (Done /\ num_other_paths >= 0) =>
    /\ Len(out) = 8 + 3 * num_other_paths
    /\ \A j \in 1..Len(out) : out[j] = ExpectedLine(j)
    /\ LET P == Parsed
       IN \A j \in 1..Len(P) : \A x \in 1..Len(P[j]) : P[j][x] # "N0"

ExactOutputWitness ==
  /\ Done
  /\ num_other_paths = 2
  /\ out = <<"add, start, 1", "", "add, B, 9", "connect, start, B, 1.5", "",
             "add, finish, 10 ", "connect, B, finish, 0", "",
             "add, N1, 2.5", "connect, start, N1, 1.5",
             "connect, N1, finish, 0",
             "add, N2, 2.5", "connect, start, N2, 1.5",
             "connect, N2, finish, 0">>

(* ------------------------------ C2 ------------------------------------- *)
\* C2 as stated: with the defaults (99, 0.1, 7) the output has 201 non-blank
\* lines, 102 of them 'add' lines and 101 'connect' lines.
DefaultCountsAsStated ==
  (Done /\ IsDefaults) =>
    /\ Cardinality(BlankIdx) = 3
    /\ Cardinality(NonBlankIdx) = 201
    /\ LET P == Parsed
       IN /\ Cardinality(AddIdx(P)) = 102
          /\ Cardinality(ConnectIdx(P)) = 101

\* C2 amended: with the defaults (99, 0.1, 7) the output has 3 blank lines
\* and 5 + 3*99 = 302 other lines, 102 of them 'add' lines and
\* 2 + 2*99 = 200 'connect' lines.
DefaultCounts ==
  (Done /\ IsDefaults) =>
    /\ Cardinality(BlankIdx) = 3
    /\ Cardinality(NonBlankIdx) = 302
    /\ LET P == Parsed
       IN /\ Cardinality(AddIdx(P)) = 102
          /\ Cardinality(ConnectIdx(P)) = 200
          /\ AddIdx(P) \cup ConnectIdx(P) = NonBlankIdx

DefaultCountsWitness ==
  /\ Done
  /\ IsDefaults
  /\ Len(out) = 305
  /\ out[6] = "add, finish, 10 "
  /\ out[303] = "add, N99, 0.1"
  /\ out[304] = "connect, start, N99, 7"
  /\ out[305] = "connect, N99, finish, 0"

(* ------------------------------ C3 ------------------------------------- *)
\* C3 as stated: for k = 0 the output is the header block, a block of 7
\* lines (counted with or without its 3 blank lines), and no distractor
\* line follows.
ZeroPathsAsStated ==
  (Done /\ num_other_paths = 0) =>
    /\ Len(out) = 7 \/ Cardinality(NonBlankIdx) = 7
    /\ Cardinality(BlankIdx) = 3
    /\ \A j \in 1..Len(out) : ~IsDistractorLine(Split(out[j]))

\* C3 amended: for k = 0 the output is exactly the header block, which is 8
\* lines, 3 of them blank and 5 not, and holds no distractor line.
ZeroPaths ==
  (Done /\ num_other_paths = 0) =>
    /\ out = <<"add, start, 1", "", "add, B, 9",
               "connect, start, B, " \o PyStr(path_length), "",
               "add, finish, 10 ", "connect, B, finish, 0", "">>
    /\ Len(out) = 8
    /\ Cardinality(BlankIdx) = 3
    /\ Cardinality(NonBlankIdx) = 5
    /\ \A j \in 1..Len(out) : ~IsDistractorLine(Split(out[j]))

ZeroPathsWitness ==
  /\ Done
  /\ num_other_paths = 0
  /\ out[4] = "connect, start, B, 7"
  /\ out[Len(out)] = ""

(* ------------------------------ C4 ------------------------------------- *)
\* C4: for every k >= 0, once the script has finished the names declared by
\* 'add' lines are exactly start, B, finish and N1..Nk, each declared by
\* exactly one 'add' line.
DeclaredNames ==
  (Done /\ num_other_paths >= 0) =>
    LET P == Parsed
        adds == AddIdx(P)
    IN /\ {P[j][2] : j \in adds} = {"start", "B", "finish"} \cup DistractorNames
       /\ Cardinality(adds) = 3 + num_other_paths
       /\ \A a \in adds : \A b \in adds : P[a][2] = P[b][2] => a = b

DeclaredNamesWitness ==
  /\ Done
  /\ num_other_paths = 3
  /\ AddNames(Parsed) = {"start", "B", "finish", "N1", "N2", "N3"}
(* ------------------------------ C5 ------------------------------------- *)
\* C5: after every printed line, each 'connect' line printed so far has both
\* endpoints declared by an 'add' line printed before it; so the finished
\* output has no connect endpoint outside the set of declared names.
NoDanglingReference ==
  LET P == Parsed
      adds == AddIdx(P)
  IN \A c \in 1..Len(out) :
       IsConnect(P[c]) =>
         \A x \in {2, 3} : \E a \in adds : a < c /\ P[a][2] = P[c][x]

NoDanglingReferenceWitness ==
  /\ pc = "L18"
  /\ i = Bound(1)
  /\ out[Len(out)] = "connect, start, N2, 7"
  /\ out[Len(out) - 1] = "add, N2, 0.1"

(* ------------------------------ C6 ------------------------------------- *)
\* C6: for a negative num_other_paths the script finishes without running
\* the loop body (i and node_name are never assigned) and its output is the
\* output for num_other_paths = 0, the 8 header lines.
NegativeIsEmpty ==
  (Done /\ num_other_paths < 0) =>
    /\ i = Unbound
    /\ node_name = Unbound
    /\ it = 0
    /\ out = <<"add, start, 1", "", "add, B, 9",
               "connect, start, B, " \o PyStr(path_length), "",
               "add, finish, 10 ", "connect, B, finish, 0", "">>

NegativeIsEmptyWitness ==
  /\ Done
  /\ num_other_paths = -2
  /\ Len(out) = 8
  /\ out[4] = "connect, start, B, 0"

(* ------------------------------ C7 ------------------------------------- *)
\* the weight field of the connect line from node a to node b, if printed
Weights(P, a, b) ==
  {P[c][4] : c \in {d \in ConnectIdx(P) : P[d][2] = a /\ P[d][3] = b}}

\* C7 as stated: the edges start->B, B->finish and every start->Ni carry
\* path_length as their weight.
PathLengthOnBothFavoredEdges ==
  Done =>
    LET P == Parsed
    IN /\ Weights(P, "start", "B") = {PyStr(path_length)}
       /\ Weights(P, "B", "finish") = {PyStr(path_length)}
       /\ \A nm \in DistractorNames :
             Weights(P, "start", nm) = {PyStr(path_length)}

\* C7 amended: the edge start->B and every edge start->Ni carry path_length
\* as their weight; the edge B->finish carries the literal weight 0 whatever
\* path_length is.
PathLengthOnStartEdges ==
  Done =>
    LET P == Parsed
    IN /\ Weights(P, "start", "B") = {PyStr(path_length)}
       /\ Weights(P, "B", "finish") = {"0"}
       /\ \A nm \in DistractorNames :
             Weights(P, "start", nm) = {PyStr(path_length)}

PathLengthOnStartEdgesWitness ==
  /\ Done
  /\ num_other_paths = 1
  /\ path_length = PyFloat(15)
  /\ out[4] = "connect, start, B, 1.5"
  /\ out[7] = "connect, B, finish, 0"
  /\ out[10] = "connect, start, N1, 1.5"

(* ------------------------------ C8 ------------------------------------- *)
\* C8: the loop prints no blank line: in every prefix of the output every
\* line after the 8 header lines is non-blank, so for k >= 1 the first
\* distractor line 'add, N1, ...' directly follows the header and no blank
\* line stands inside or between the three-line distractor entries.
NoBlankInDistractors ==
  /\ \A j \in BlankIdx : j <= 8
  /\ Len(out) > 8 =>
       /\ Split(out[9])[1] = "add"
       /\ Split(out[9])[2] = "N1"
       /\ BlankIdx = {2, 5, 8}

NoBlankInDistractorsWitness ==
  /\ Done
  /\ num_other_paths = 3
  /\ Len(out) = 17
  /\ BlankIdx = {2, 5, 8}
  /\ out[9] = "add, N1, 0.1"

(* ------------------------------ C9 ------------------------------------- *)
\* the loop variable is first bound to 0 and then only ever grows by one
CounterStep ==
  i' # i => \/ i = Unbound /\ i' = Bound(0)
            \/ i # Unbound /\ i' = Bound(i[1] + 1)

\* C9: for every integer num_other_paths the script terminates; the loop
\* variable starts at 0, grows by one each pass and stays below
\* num_other_paths, so each index 0..k-1 is visited once, and at the end the
\* whole output of 8 + 3*max(num_other_paths, 0) lines has been printed.
Terminates ==
  /\ <>Done
  /\ [][CounterStep]_vars
  /\ [](i # Unbound => i[1] < num_other_paths)
  /\ [](Done => /\ Len(out) = 8 + 3 * K
                /\ it = K
                /\ i = IF K = 0 THEN Unbound ELSE Bound(K - 1))

TerminatesWitness ==
  /\ Done
  /\ num_other_paths = 3
  /\ i = Bound(2)
  /\ Len(out) = 17

(* ------------------------------ C10 ------------------------------------ *)
Intermediates == {"B"} \cup DistractorNames
EdgesFrom(P, a) == {c \in ConnectIdx(P) : P[c][2] = a}
EdgesInto(P, b) == {c \in ConnectIdx(P) : P[c][3] = b}
\* the two-edge routes start -> x -> finish, as pairs of connect lines
Routes(P) ==
  {r \in EdgesFrom(P, "start") \X EdgesInto(P, "finish") :
     P[r[1]][3] = P[r[2]][2]}

\* C10: in the finished output, for every k >= 0 and path length p, every
\* edge leaving start has weight p and every edge entering finish weight 0;
\* B and each Ni have exactly one incoming edge, from start, and exactly one
\* outgoing edge, to finish; start has no incoming and finish no outgoing
\* edge; so there are exactly k + 1 routes from start to finish, each of two
\* edges whose weights are p and 0.
HaystackShape ==
  (Done /\ num_other_paths >= 0) =>
    LET P == Parsed
        conn == ConnectIdx(P)
        routes == Routes(P)
        mids == Intermediates
    IN /\ \A c \in conn : P[c][2] = "start" => P[c][4] = PyStr(path_length)
       /\ \A c \in conn : P[c][3] = "finish" => P[c][4] = "0"
       /\ \A x \in mids :
             /\ Cardinality({c \in conn : P[c][3] = x}) = 1
             /\ Cardinality({c \in conn : P[c][2] = x}) = 1
             /\ \A c \in conn : P[c][3] = x => P[c][2] = "start"
             /\ \A c \in conn : P[c][2] = x => P[c][3] = "finish"
       /\ \A c \in conn : P[c][3] # "start" /\ P[c][2] # "finish"
       /\ \A c \in conn :
             \/ P[c][2] = "start" /\ P[c][3] \in mids
             \/ P[c][2] \in mids /\ P[c][3] = "finish"
       /\ Cardinality(routes) = num_other_paths + 1
       /\ {P[r[1]][3] : r \in routes} = mids
       /\ \A r \in routes : /\ P[r[1]][4] = PyStr(path_length)
                             /\ P[r[2]][4] = "0"

HaystackShapeWitness ==
  /\ Done
  /\ num_other_paths = 2
  /\ path_length = PyInt(7)
  /\ LET P == Parsed
     IN /\ Cardinality(Routes(P)) = 3
        /\ {P[r[1]][3] : r \in Routes(P)} = {"B", "N1", "N2"}
====
